---- MODULE Spec2Model ----
(***************************************************************************)
(* Rule-based adaptive chunking: extract_pdf.is_heading_line, the cue      *)
(* classifier (detect_cue_pattern and its helpers), label_blocks and the   *)
(* chunk builder build_chunks of adaptive_chunking.py.                     *)
(*                                                                         *)
(* Texts are strings and the helpers work on them character by character   *)
(* (Len, SubSeq and \o on strings), as the regular expressions of the      *)
(* source do.  Two characters that cannot be written in a module are       *)
(* represented by ASCII stand-ins: NBSP (U+00A0) and ELLIPSIS (U+2026).    *)
(***************************************************************************)
EXTENDS Integers, Sequences, FiniteSets, TLC

(***************************************************************************)
(* Bounds of the model.                                                    *)
(***************************************************************************)
MaxBlocks == 3

\* Python's None (Optional[Dict], Optional[LabeledBlock]) and the empty dict
None == [none |-> TRUE]
EmptyMeta == <<>>

\* the lines (or paragraphs) a document can consist of, with the meta the
\* caller attaches to the block
Pool ==
    {[text |-> "Bab 1 Cahaya", meta |-> None],
     [text |-> "Sifat cahaya matahari pagi", meta |-> None],
     [text |-> "Cahaya adalah gelombang  elektromagnetik.", meta |-> [page |-> 1]],
     [text |-> "Amati cahaya di sekitarmu.", meta |-> None],
     [text |-> "1. Siapkan senter", meta |-> None],
     [text |-> "dan catat hasilnya.", meta |-> None],
     [text |-> "Kalian amati cahaya itu.", meta |-> None],
     [text |-> "kosakata baru", meta |-> None],
     [text |-> "2. Apa itu cahaya", meta |-> None],
     [text |-> "ISBN 978", meta |-> None],
     [text |-> "amati cahaya itu.", meta |-> None],
     [text |-> "Cahaya itu terang?", meta |-> None]}

PoolTexts == {e.text : e \in Pool}

(***************************************************************************)
(* Characters.                                                             *)
(***************************************************************************)
NBSP == "~"
ELLIPSIS == "^"
AlphaLower == "abcdefghijklmnopqrstuvwxyz"
AlphaUpper == "ABCDEFGHIJKLMNOPQRSTUVWXYZ"
DigitString == "0123456789"

Ch(s, k) == SubSeq(s, k, k)

CharsOf(s) == {Ch(s, k) : k \in 1..Len(s)}

LowerChars == CharsOf(AlphaLower)
UpperChars == CharsOf(AlphaUpper)
DigitChars == CharsOf(DigitString)

\* \s of the regular expressions, and the characters str.strip() removes
IsSpaceCh(c) == c \in {" ", "\t", "\n"}
\* [A-Za-z]
IsLetterCh(c) == c \in LowerChars \/ c \in UpperChars
\* \w
IsWordCh(c) == IsLetterCh(c) \/ c \in DigitChars \/ c = "_"

\* str.lower()
LowerCh(c) ==
    IF c \in UpperChars
    THEN Ch(AlphaLower, CHOOSE k \in 1..26 : Ch(AlphaUpper, k) = c)
    ELSE c

RECURSIVE lower(_)
lower(s) == IF s = "" THEN "" ELSE LowerCh(Head(s)) \o lower(Tail(s))

\* keeps the characters of s that are in the set K of positions
RECURSIVE KeepAt(_, _, _)
KeepAt(s, K, k) ==
    IF k > Len(s) THEN ""
    ELSE (IF k \in K THEN Ch(s, k) ELSE "") \o KeepAt(s, K, k + 1)

\* str.startswith, str.endswith, the substring test "sub in s"
StartsWith(s, p) == Len(s) >= Len(p) /\ SubSeq(s, 1, Len(p)) = p
EndsWith(s, p) == Len(s) >= Len(p) /\ SubSeq(s, Len(s) - Len(p) + 1, Len(s)) = p
Contains(s, sub) ==
    \E k \in 1..(Len(s) - Len(sub) + 1) : SubSeq(s, k, k + Len(sub) - 1) = sub

\* str.strip()
strip(s) ==
    LET NonSpace == {k \in 1..Len(s) : ~IsSpaceCh(Ch(s, k))}
    IN  IF NonSpace = {} THEN ""
        ELSE SubSeq(s, CHOOSE k \in NonSpace : \A j \in NonSpace : k <= j,
                       CHOOSE k \in NonSpace : \A j \in NonSpace : k >= j)

\* str.split(): the maximal runs of non-whitespace characters
RECURSIVE SplitFrom(_, _)
SplitFrom(s, k) ==
    IF k > Len(s) THEN <<>>
    ELSE IF IsSpaceCh(Ch(s, k)) THEN SplitFrom(s, k + 1)
    ELSE LET Ends == {e \in k..Len(s) : e = Len(s) \/ IsSpaceCh(Ch(s, e + 1))}
             e == CHOOSE x \in Ends : \A y \in Ends : x <= y
         IN  <<SubSeq(s, k, e)>> \o SplitFrom(s, e + 1)

split(s) == SplitFrom(s, 1)

\* \b between positions k and k+1 of s
WordBoundary(s, k) ==
    LET left == k >= 1 /\ k <= Len(s) /\ IsWordCh(Ch(s, k))
        right == k + 1 >= 1 /\ k + 1 <= Len(s) /\ IsWordCh(Ch(s, k + 1))
    IN  left # right

\* re.search(r"\bw\b", s) for a literal w
SearchWord(s, w) ==
    \E k \in 1..(Len(s) - Len(w) + 1) :
        /\ SubSeq(s, k, k + Len(w) - 1) = w
        /\ WordBoundary(s, k - 1)
        /\ WordBoundary(s, k + Len(w) - 1)

\* re.sub(r"[^\w-]", "", tok)
CleanToken(tok) ==
    KeepAt(tok, {k \in 1..Len(tok) : IsWordCh(Ch(tok, k)) \/ Ch(tok, k) = "-"}, 1)

(***************************************************************************)
(* Cue patterns, normalization and the lexical lists.                      *)
(***************************************************************************)
CP_HEADING == "NEW_SUBTOPIC_HEADING"
CP_IMPERATIVE == "IMPERATIVE_TASK"
CP_EVALUATIVE == "EVALUATIVE_QUESTION"
CP_DEFINITION == "DEFINITION"
CP_CAUSE_EFFECT == "CAUSE_EFFECT"
CP_EXAMPLE == "EXAMPLE_ILLUSTRATION"
CP_NARRATIVE == "NARRATIVE_SEQUENCE"
CP_FACT == "FACT_EXPLANATION"
CP_INTRO == "PROMPT_INTRO"
CP_GLOSSARY == "GLOSSARY_BOX"
CP_META == "BOOK_META"

normalize_text(t) ==
    LET \* .replace(NBSP, " ")
        a == [k \in 1..Len(t) |-> IF Ch(t, k) = NBSP THEN " " ELSE Ch(t, k)]
        \* re.sub(r"[ \t]+", " ", t): a run of blanks becomes one space
        Blank(k) == a[k] \in {" ", "\t"}
        b == [k \in 1..Len(t) |->
                IF Blank(k)
                THEN (IF k > 1 /\ Blank(k - 1) THEN "" ELSE " ")
                ELSE a[k]]
        \* re.sub(r"\n{3,}", "\n\n", t): the third and later newlines of a
        \* run are dropped (blanks are never "\n", so runs are those of a)
        c == [k \in 1..Len(t) |->
                IF a[k] = "\n" /\ k > 2 /\ a[k - 1] = "\n" /\ a[k - 2] = "\n"
                THEN "" ELSE b[k]]
        Join[k \in 0..Len(t)] == IF k = 0 THEN "" ELSE Join[k - 1] \o c[k]
    IN  strip(Join[Len(t)])

IMPERATIVE_VERBS ==
    {"amati", "perhatikan", "lakukan", "siapkan", "diskusikan",
     "tuliskan", "jawablah", "sebutkan", "urutkan", "pasangkan",
     "buatlah", "bacalah", "cermati", "pahami", "gunakan",
     "kerjakan", "cobalah", "tentukan", "prediksi", "isilah",
     "lengkapilah", "tebaklah", "ukur", "gambar", "hitung",
     "jelaskan", "uraikan", "pilihlah", "lingkarilah"}

EVAL_TRIGGERS ==
    {"latihan", "soal", "ujian",
     "jawablah", "isilah", "pasangkan", "urutkan", "pilihlah",
     "lengkapilah", "teka-teki silang", "diagram venn",
     "refleksikan", "refleksi", "mari refleksikan", "mari refleksi",
     "evaluasi", "penilaian"}

PROMPT_WORDS ==
    {"tahukah", "yuk", "mari", "pernahkah", "selamat belajar", "masih ingat"}

ACTIVITY_HEADINGS ==
    {"lakukan bersama", "mari mencoba", "ayo,", "ayo ",
     "belajar lebih lanjut", "projek", "proyek"}

GLOSSARY_HEADINGS == {"kosakata baru"}

QUESTION_WORDS ==
    {"apa", "mengapa", "bagaimana", "kapan", "siapa",
     "di mana", "dimana", "kenapa"}

STEP_PREFIXES ==
    {"saat kalian", "ketika kalian", "jika kalian", "bila kalian",
     "setelah itu", "kemudian", "lalu"}

CONTENT_CUES ==
    {CP_DEFINITION, CP_CAUSE_EFFECT, CP_EXAMPLE, CP_NARRATIVE, CP_FACT, CP_INTRO}

(***************************************************************************)
(* Helpers of the classifier.                                              *)
(***************************************************************************)
META_PATTERNS ==
    {"isbn", "kementerian", "republik indonesia", "kemendikbud", "penulis",
     "hak cipta", "pusat kurikulum", "balai kurikulum"}

looks_like_book_meta(t) ==
    LET tl == lower(normalize_text(t))
        letters == KeepAt(t, {k \in 1..Len(t) : IsLetterCh(Ch(t, k))}, 1)
        uppers == Cardinality({k \in 1..Len(letters) : Ch(letters, k) \in UpperChars})
    IN  IF tl = "" THEN FALSE
        ELSE IF \/ \E p \in META_PATTERNS : SearchWord(tl, p)
                \* r"\bjil\.\b": the second \b needs a word character after "."
                \/ \E k \in 1..(Len(tl) - 3) :
                      /\ SubSeq(tl, k, k + 3) = "jil."
                      /\ WordBoundary(tl, k - 1)
                      /\ WordBoundary(tl, k + 3)
             THEN TRUE
        \* upper_ratio > 0.85, len(letters) >= 30 so max(1, len) = len
        ELSE Len(letters) >= 30 /\ uppers * 100 > 85 * Len(letters)

\* the length of the match of r"^\s*\d+\." in t, 0 when there is none
NumberPrefixLen(t) ==
    LET Starts == {k \in 1..Len(t) : ~IsSpaceCh(Ch(t, k))}
        s == IF Starts = {} THEN Len(t) + 1
             ELSE CHOOSE k \in Starts : \A j \in Starts : k <= j
        NonDigit == {k \in s..(Len(t) + 1) : k = Len(t) + 1 \/ Ch(t, k) \notin DigitChars}
        d == CHOOSE k \in NonDigit : \A j \in NonDigit : k <= j
    IN  IF d > s /\ d <= Len(t) /\ Ch(t, d) = "." THEN d ELSE 0

\* re.match(r"^\s*\d+\.\s+", t)
is_numbered_line(t) ==
    LET n == NumberPrefixLen(t)
    IN  n > 0 /\ n < Len(t) /\ IsSpaceCh(Ch(t, n + 1))

\* re.sub(r"^\s*\d+\.\s*", "", t).strip()
strip_number_prefix(t) ==
    LET n == NumberPrefixLen(t)
    IN  IF n = 0 THEN strip(t) ELSE strip(SubSeq(t, n + 1, Len(t)))

looks_like_numbered_question(t) ==
    LET t_norm == normalize_text(t)
        after == lower(strip_number_prefix(t_norm))
    IN  IF ~is_numbered_line(t_norm) THEN FALSE
        ELSE IF Contains(t_norm, "?") THEN TRUE
        ELSE \E qw \in QUESTION_WORDS : StartsWith(after, qw \o " ") \/ after = qw

\* tok in IMPERATIVE_VERBS, or tok minus a final "lah" is
IsImperativeToken(tok) ==
    \/ tok \in IMPERATIVE_VERBS
    \/ EndsWith(tok, "lah") /\ SubSeq(tok, 1, Len(tok) - 3) \in IMPERATIVE_VERBS

starts_with_imperative(t) ==
    LET tn == lower(normalize_text(t))
        first == CleanToken(split(tn)[1])
    IN  IF tn = "" THEN FALSE
        ELSE IF IsImperativeToken(first) THEN TRUE
        \* ("meng", "meny", "men", "mem", "me")
        ELSE \E p \in {"meng", "meny", "men", "mem", "me"} : StartsWith(first, p)

\* re.findall(r"[a-zA-Z-]+", tl): the maximal runs of letters and hyphens
RECURSIVE LetterRunsFrom(_, _)
LetterRunsFrom(s, k) ==
    LET InRun(j) == IsLetterCh(Ch(s, j)) \/ Ch(s, j) = "-"
    IN  IF k > Len(s) THEN <<>>
        ELSE IF ~InRun(k) THEN LetterRunsFrom(s, k + 1)
        ELSE LET Ends == {e \in k..Len(s) : e = Len(s) \/ ~InRun(e + 1)}
                 e == CHOOSE x \in Ends : \A y \in Ends : x <= y
             IN  <<SubSeq(s, k, e)>> \o LetterRunsFrom(s, e + 1)

contains_imperative_anywhere(t) ==
    LET tl == lower(normalize_text(t))
        words == LetterRunsFrom(tl, 1)
    IN  IF tl = "" THEN FALSE
        ELSE \E k \in 1..Len(words) : IsImperativeToken(CleanToken(words[k]))

numbered_line_is_heading(t) ==
    LET t_norm == normalize_text(t)
        after == lower(strip_number_prefix(t_norm))
        toks == split(after)
    IN  IF ~is_numbered_line(t_norm) THEN FALSE
        ELSE IF looks_like_numbered_question(t_norm) THEN FALSE
        ELSE IF \E k \in 1..Len(toks) : k <= 3 /\ IsImperativeToken(CleanToken(toks[k]))
             THEN FALSE
        ELSE IF \E pref \in STEP_PREFIXES : StartsWith(after, pref) THEN FALSE
        ELSE Len(toks) <= 6

\* re.search(r"\b(adalah|merupakan|yaitu|disebut)\b", tl)
HasDefinitionWord(tl) ==
    \E w \in {"adalah", "merupakan", "yaitu", "disebut"} : SearchWord(tl, w)

\* re.match(r"^\s*(bab|topik)\s+\w+", tl)
MatchesBabTopik(tl) ==
    \E w \in {"bab", "topik"} :
        LET s == strip(tl)
            rest == SubSeq(s, Len(w) + 1, Len(s))
        IN  /\ StartsWith(s, w)
            /\ rest # "" /\ IsSpaceCh(Head(rest))
            /\ strip(rest) # "" /\ IsWordCh(Head(strip(rest)))

is_heading_text(t0) ==
    LET t == normalize_text(t0)
        tl == lower(t)
        short == Len(split(t)) <= 6 /\ ~(\E p \in {".", "!", "?"} : EndsWith(t, p))
    IN  IF t = "" THEN FALSE
        ELSE IF MatchesBabTopik(tl) THEN TRUE
        ELSE IF \E h \in GLOSSARY_HEADINGS : StartsWith(tl, h) THEN TRUE
        ELSE IF \E h \in ACTIVITY_HEADINGS : StartsWith(tl, h) THEN TRUE
        ELSE IF is_numbered_line(t) THEN numbered_line_is_heading(t)
        ELSE short /\ ~HasDefinitionWord(tl) /\ ~Contains(t, "?")

looks_like_evaluative(t) ==
    LET tl == lower(normalize_text(t))
    IN  IF tl = "" THEN FALSE
        ELSE IF looks_like_numbered_question(t) THEN TRUE
        ELSE \E trg \in EVAL_TRIGGERS : Contains(tl, trg)

CONTINUATION_CONNECTORS ==
    {"dan ", "atau ", "serta ", "yang ", "hasil ", "kemudian", "lalu",
     "setelah", "karena", "sehingga"}

looks_like_continuation(prev_text, cur_text) ==
    LET prev == normalize_text(prev_text)
        cur == normalize_text(cur_text)
        starts_lower == Head(cur) \in LowerChars
        starts_connector == \E c \in CONTINUATION_CONNECTORS : StartsWith(lower(cur), c)
        shortish == Len(split(cur)) <= 25
    IN  IF prev = "" \/ cur = "" THEN FALSE
        ELSE IF \E p \in {".", "!", "?", ELLIPSIS, ":"} : EndsWith(prev, p) THEN FALSE
        ELSE (starts_lower \/ starts_connector) /\ shortish

(***************************************************************************)
(* Cue pattern detection and labeling.                                     *)
(***************************************************************************)
detect_cue_pattern(block) ==
    LET t == normalize_text(block.text)
        tl == lower(t)
    IN  IF looks_like_book_meta(t) THEN CP_META
        ELSE IF is_heading_text(t) THEN
            IF \E h \in GLOSSARY_HEADINGS : StartsWith(tl, h) THEN CP_GLOSSARY
            ELSE IF Contains(tl, "refleksikan") \/ Contains(tl, "refleksi") THEN CP_EVALUATIVE
            ELSE IF \E h \in ACTIVITY_HEADINGS : StartsWith(tl, h) THEN CP_IMPERATIVE
            ELSE IF looks_like_numbered_question(t) THEN CP_EVALUATIVE
            ELSE CP_HEADING
        ELSE IF is_numbered_line(t) /\ ~numbered_line_is_heading(t) THEN
            IF looks_like_numbered_question(t) THEN CP_EVALUATIVE ELSE CP_IMPERATIVE
        ELSE IF starts_with_imperative(t) \/ StartsWith(tl, "ayo,") \/ StartsWith(tl, "ayo ") THEN
            IF looks_like_evaluative(t) THEN CP_EVALUATIVE ELSE CP_IMPERATIVE
        ELSE IF looks_like_evaluative(t) THEN CP_EVALUATIVE
        ELSE IF \E p \in PROMPT_WORDS : Contains(tl, p) THEN CP_INTRO
        ELSE IF HasDefinitionWord(tl) THEN CP_DEFINITION
        ELSE IF \E w \in {"karena", "sehingga", "oleh karena itu"} : SearchWord(tl, w)
             THEN CP_CAUSE_EFFECT
        ELSE IF \E w \in {"misalnya", "contohnya", "seperti"} : SearchWord(tl, w)
             THEN CP_EXAMPLE
        ELSE IF \E w \in {"dahulu", "suatu hari", "kemudian", "tinggallah"} : SearchWord(tl, w)
             THEN CP_NARRATIVE
        ELSE CP_FACT

cue_to_category(cue) ==
    IF cue = CP_IMPERATIVE THEN "INSTRUKSI"
    ELSE IF cue = CP_EVALUATIVE THEN "EVALUASI"
    ELSE IF cue = CP_NARRATIVE THEN "NARASI"
    ELSE IF cue = CP_GLOSSARY THEN "KONSEP"
    ELSE IF cue = CP_META THEN "META"
    ELSE "KONSEP"

\* detect_cue_pattern and normalize_text on the texts of Pool, computed once
CueOfPoolText == [t \in PoolTexts |-> detect_cue_pattern([text |-> t])]
NormalizedPoolText == [t \in PoolTexts |-> normalize_text(t)]

\* LabeledBlock(...) for a block whose cue is known
LabeledBlock(b, text, cue) ==
    [id |-> b.id,
     text |-> text,
     block_type |-> b.block_type,
     cue_pattern |-> cue,
     category |-> cue_to_category(cue),
     \* meta=b.meta or {}
     meta |-> IF b.meta = None \/ b.meta = EmptyMeta THEN EmptyMeta ELSE b.meta]

label_block(b) ==
    IF b.text \in PoolTexts
    THEN LabeledBlock(b, NormalizedPoolText[b.text], CueOfPoolText[b.text])
    ELSE LabeledBlock(b, normalize_text(b.text), detect_cue_pattern(b))

label_blocks(bs) == [k \in 1..Len(bs) |-> label_block(bs[k])]

(***************************************************************************)
(* extract_pdf: which lines become blocks of block_type "heading".         *)
(***************************************************************************)
HEADING_PHRASES ==
    {"lakukan bersama", "mari refleksikan", "belajar lebih lanjut", "kosakata baru"}

\* the patterns are matched with re.IGNORECASE, hence on the lowered line
is_heading_line(line) ==
    LET s == strip(line)
        sl == lower(s)
        n == NumberPrefixLen(s)
        AfterWord(w) == strip(SubSeq(sl, Len(w) + 1, Len(sl)))
        SpaceAfter(w) == Len(sl) > Len(w) /\ IsSpaceCh(Ch(sl, Len(w) + 1))
    IN  IF s = "" THEN FALSE
        ELSE IF Len(split(s)) <= 12 THEN
            \* r"^Bab\s+\d+"
            \/ /\ StartsWith(sl, "bab") /\ SpaceAfter("bab")
               /\ AfterWord("bab") # "" /\ Head(AfterWord("bab")) \in DigitChars
            \* r"^Topik\s+[A-Z]\s*:"
            \/ /\ StartsWith(sl, "topik") /\ SpaceAfter("topik")
               /\ AfterWord("topik") # "" /\ IsLetterCh(Head(AfterWord("topik")))
               /\ StartsWith(strip(Tail(AfterWord("topik"))), ":")
            \* r"^\d+\.\s+\S+"
            \/ is_numbered_line(s) /\ strip_number_prefix(s) # ""
            \* r"^(Lakukan Bersama|Mari Refleksikan|Belajar Lebih Lanjut|Kosakata Baru)\b"
            \/ \E h \in HEADING_PHRASES : StartsWith(sl, h) /\ WordBoundary(sl, Len(h))
            \* r"^(Ayo,|Ayo )\b"
            \/ \E h \in {"ayo,", "ayo "} : StartsWith(sl, h) /\ WordBoundary(sl, Len(h))
        ELSE FALSE

\* STEP_PAT = r"^\s*(\d+)\.\s+.+$"
MatchesStepPat(line) == is_numbered_line(line) /\ strip_number_prefix(line) # ""

\* the Block extract_blocks appends for a line (or a flushed paragraph),
\* bid being the running block number
\* is_heading_line on the texts of Pool, computed once
HeadingLineInPool == {t \in PoolTexts : is_heading_line(t)}

extract_block(bid, line, meta) ==
    IF (IF line \in PoolTexts THEN line \in HeadingLineInPool ELSE is_heading_line(line))
    THEN [id |-> "H" \o ToString(bid), text |-> line, block_type |-> "heading", meta |-> meta]
    ELSE IF MatchesStepPat(line)
    THEN [id |-> "S" \o ToString(bid), text |-> line, block_type |-> "paragraph", meta |-> meta]
    ELSE [id |-> "P" \o ToString(bid), text |-> line, block_type |-> "paragraph", meta |-> meta]

(***************************************************************************)
(* Chunk boundary rule and the chunk builder as a reducer.                 *)
(***************************************************************************)
\* mutant: an open chunk is never sealed by a change of category
should_start_new_chunkNever(prev, cur) == prev = None

\* mutant: only consecutive INSTRUKSI or EVALUASI blocks share a chunk
should_start_new_chunkOnlyActivities(prev, cur) ==
    IF prev = None THEN TRUE
    ELSE IF prev.category = "INSTRUKSI" /\ cur.category = "INSTRUKSI" THEN FALSE
    ELSE IF prev.category = "EVALUASI" /\ cur.category = "EVALUASI" THEN FALSE
    ELSE TRUE

should_start_new_chunk(prev, cur) ==
    IF prev = None THEN TRUE
    ELSE IF prev.category = "INSTRUKSI" /\ cur.category = "INSTRUKSI" THEN FALSE
    ELSE IF prev.category = "EVALUASI" /\ cur.category = "EVALUASI" THEN FALSE
    ELSE IF prev.category # cur.category THEN TRUE
    ELSE FALSE

NoActivity == "NONE"

\* f"CH{chunk_counter:04d}"
FormatChunkId(n) ==
    LET digits == ToString(n)
        Pad[k \in 0..4] == IF k = 0 THEN "" ELSE "0" \o Pad[k - 1]
    IN  "CH" \o (IF Len(digits) >= 4 THEN digits ELSE Pad[4 - Len(digits)] \o digits)

\* the local variables of build_chunks before the loop
InitialState ==
    [chunks |-> <<>>,
     current_activity |-> NoActivity,
     current_texts |-> <<>>,
     current_ids |-> <<>>,
     current_cues |-> <<>>,
     current_cats |-> <<>>,
     current_meta |-> [headings |-> <<>>],
     last_effective |-> None,
     last_text_in_chunk |-> "",
     chunk_counter |-> 1]

\* mutant: the chunk counter is not advanced
flushNoIncrement(st) ==
    IF st.current_texts = <<>> THEN st
    ELSE [st EXCEPT
            !.chunks = Append(@, [chunk_id |-> FormatChunkId(st.chunk_counter),
                                  texts |-> st.current_texts,
                                  block_ids |-> st.current_ids,
                                  cue_patterns |-> st.current_cues,
                                  categories |-> st.current_cats,
                                  meta |-> st.current_meta]),
            !.current_texts = <<>>,
            !.current_ids = <<>>,
            !.current_cues = <<>>,
            !.current_cats = <<>>,
            !.current_meta = [headings |-> <<>>],
            !.last_effective = None,
            !.last_text_in_chunk = ""]

\* mutant: the accumulator lists are not replaced by fresh ones
flushKeepsAccumulator(st) ==
    IF st.current_texts = <<>> THEN st
    ELSE [st EXCEPT
            !.chunks = Append(@, [chunk_id |-> FormatChunkId(st.chunk_counter),
                                  texts |-> st.current_texts,
                                  block_ids |-> st.current_ids,
                                  cue_patterns |-> st.current_cues,
                                  categories |-> st.current_cats,
                                  meta |-> st.current_meta]),
            !.chunk_counter = @ + 1,
            !.current_meta = [headings |-> <<>>],
            !.last_effective = None,
            !.last_text_in_chunk = ""]

\* mutant: last_effective is not reset
flushKeepsLastEffective(st) ==
    IF st.current_texts = <<>> THEN st
    ELSE [st EXCEPT
            !.chunks = Append(@, [chunk_id |-> FormatChunkId(st.chunk_counter),
                                  texts |-> st.current_texts,
                                  block_ids |-> st.current_ids,
                                  cue_patterns |-> st.current_cues,
                                  categories |-> st.current_cats,
                                  meta |-> st.current_meta]),
            !.chunk_counter = @ + 1,
            !.current_texts = <<>>,
            !.current_ids = <<>>,
            !.current_cues = <<>>,
            !.current_cats = <<>>,
            !.current_meta = [headings |-> <<>>],
            !.last_text_in_chunk = ""]

flush(st) ==
    IF st.current_texts = <<>> THEN st
    ELSE [st EXCEPT
            !.chunks = Append(@, [chunk_id |-> FormatChunkId(st.chunk_counter),
                                  texts |-> st.current_texts,
                                  block_ids |-> st.current_ids,
                                  cue_patterns |-> st.current_cues,
                                  categories |-> st.current_cats,
                                  meta |-> st.current_meta]),
            !.chunk_counter = @ + 1,
            !.current_texts = <<>>,
            !.current_ids = <<>>,
            !.current_cues = <<>>,
            !.current_cats = <<>>,
            !.current_meta = [headings |-> <<>>],
            !.last_effective = None,
            !.last_text_in_chunk = ""]

\* mutant: the glossary unlock is missing
UpdateActivityNoGlossary(activity, cue) ==
    IF cue = CP_IMPERATIVE THEN "INSTRUKSI"
    ELSE IF cue = CP_EVALUATIVE THEN "EVALUASI"
    ELSE IF cue \in CONTENT_CUES THEN NoActivity
    ELSE activity

\* mutant: a content cue does not release the lock
UpdateActivitySticky(activity, cue) ==
    LET a1 == IF cue = CP_GLOSSARY THEN NoActivity ELSE activity
    IN  IF cue = CP_IMPERATIVE THEN "INSTRUKSI"
        ELSE IF cue = CP_EVALUATIVE THEN "EVALUASI"
        ELSE a1

\* glossary unlock, then lock/unlock from the block's own cue
UpdateActivity(activity, cue) ==
    LET a1 == IF cue = CP_GLOSSARY THEN NoActivity ELSE activity
    IN  IF cue = CP_IMPERATIVE THEN "INSTRUKSI"
        ELSE IF cue = CP_EVALUATIVE THEN "EVALUASI"
        ELSE IF cue \in CONTENT_CUES THEN NoActivity
        ELSE a1

\* looks_like_continuation on the labeled texts of Pool, computed once
LabeledPoolTexts == {NormalizedPoolText[t] : t \in PoolTexts}
ContinuationInPool ==
    {pair \in LabeledPoolTexts \X LabeledPoolTexts : looks_like_continuation(pair[1], pair[2])}

IsContinuation(prev_text, cur_text) ==
    IF prev_text \in LabeledPoolTexts /\ cur_text \in LabeledPoolTexts
    THEN <<prev_text, cur_text>> \in ContinuationInPool
    ELSE looks_like_continuation(prev_text, cur_text)

\* mutant: the continuation heuristic is missing
ContinuationForcedNever(st, lb) == [cue |-> lb.cue_pattern, cat |-> lb.category]

\* forced_cue / forced_cat after the continuation heuristic
ContinuationForced(st, lb) ==
    IF st.last_effective # None /\ IsContinuation(st.last_text_in_chunk, lb.text)
    THEN IF st.last_effective.category = "INSTRUKSI"
         THEN [cue |-> CP_IMPERATIVE, cat |-> "INSTRUKSI"]
         ELSE IF st.last_effective.category = "EVALUASI"
         THEN [cue |-> CP_EVALUATIVE, cat |-> "EVALUASI"]
         ELSE [cue |-> lb.cue_pattern, cat |-> lb.category]
    ELSE [cue |-> lb.cue_pattern, cat |-> lb.category]

\* the two lock-driven merges, applied to forced_cue / forced_cat
InstruksiCoercion(activity, forced, lb) ==
    IF /\ activity = "INSTRUKSI"
       /\ forced.cue \in {CP_NARRATIVE, CP_FACT, CP_INTRO}
       /\ contains_imperative_anywhere(lb.text)
    THEN [cue |-> CP_IMPERATIVE, cat |-> "INSTRUKSI"]
    ELSE forced

EvaluasiCoercion(activity, forced, lb) ==
    IF /\ activity = "EVALUASI"
       /\ forced.cue \in {CP_FACT, CP_INTRO}
       /\ (Contains(lb.text, "?") \/ looks_like_evaluative(lb.text))
    THEN [cue |-> CP_EVALUATIVE, cat |-> "EVALUASI"]
    ELSE forced

LockCoercion(activity, forced, lb) ==
    EvaluasiCoercion(activity, InstruksiCoercion(activity, forced, lb), lb)

\* effective_lb: the block with its forced cue and effective category;
\* activity is current_activity after the lock update
EffectiveWith(activity, forced, lb) ==
    [id |-> lb.id,
     text |-> lb.text,
     block_type |-> lb.block_type,
     cue_pattern |-> forced.cue,
     \* effective_category
     category |-> IF /\ activity \in {"INSTRUKSI", "EVALUASI"}
                     /\ forced.cue \in {CP_IMPERATIVE, CP_EVALUATIVE}
                  THEN activity
                  ELSE forced.cat,
     meta |-> lb.meta]

EffectiveBlock(st, activity, lb) ==
    EffectiveWith(activity, LockCoercion(activity, ContinuationForced(st, lb), lb), lb)

\* current_meta.setdefault("blocks_meta", []).append({id: meta})
RecordBlockMeta(current_meta, elb) ==
    IF elb.meta = None \/ elb.meta = EmptyMeta THEN current_meta
    ELSE IF "blocks_meta" \in DOMAIN current_meta
    THEN [current_meta EXCEPT !.blocks_meta = Append(@, elb.id :> elb.meta)]
    ELSE current_meta @@ [blocks_meta |-> <<elb.id :> elb.meta>>]

\* "if current_texts and should_start_new_chunk(last_effective, effective_lb)"
FlushAtBoundary(st, effective_lb) ==
    IF should_start_new_chunk(st.last_effective, effective_lb) /\ st.current_texts # <<>>
    THEN flush(st)
    ELSE st

\* mutant: the cue of the block is not appended
AppendBlockNoCue(st, activity, effective_lb) ==
    [FlushAtBoundary(st, effective_lb) EXCEPT
            !.current_activity = activity,
            !.current_texts = Append(@, effective_lb.text),
            !.current_ids = Append(@, effective_lb.id),
            !.current_cats = Append(@, effective_lb.category),
            !.current_meta = RecordBlockMeta(@, effective_lb),
            !.last_effective = effective_lb,
            !.last_text_in_chunk = effective_lb.text]

\* mutant: the block is put in front of the accumulator
AppendBlockInFront(st, activity, effective_lb) ==
    [FlushAtBoundary(st, effective_lb) EXCEPT
            !.current_activity = activity,
            !.current_texts = <<effective_lb.text>> \o @,
            !.current_ids = <<effective_lb.id>> \o @,
            !.current_cues = <<effective_lb.cue_pattern>> \o @,
            !.current_cats = <<effective_lb.category>> \o @,
            !.current_meta = RecordBlockMeta(@, effective_lb),
            !.last_effective = effective_lb,
            !.last_text_in_chunk = effective_lb.text]

\* the boundary check and the appends of effective_lb
AppendBlock(st, activity, effective_lb) ==
    [FlushAtBoundary(st, effective_lb) EXCEPT
            !.current_activity = activity,
            !.current_texts = Append(@, effective_lb.text),
            !.current_ids = Append(@, effective_lb.id),
            !.current_cues = Append(@, effective_lb.cue_pattern),
            !.current_cats = Append(@, effective_lb.category),
            !.current_meta = RecordBlockMeta(@, effective_lb),
            !.last_effective = effective_lb,
            !.last_text_in_chunk = effective_lb.text]

\* the loop body once current_activity is updated
ContentWith(st, activity, lb) ==
    AppendBlock(st, activity, EffectiveBlock(st, activity, lb))

\* the rest of the loop body: a block that is content
ContentStep(st, lb) ==
    ContentWith(st, UpdateActivity(st.current_activity, lb.cue_pattern), lb)

\* mutant: the heading is attached to the open accumulator without a flush
HeadingStepNoFlush(st, lb) ==
    [st EXCEPT !.current_activity = NoActivity,
               !.current_meta.headings = Append(@, lb.text)]

\* mutant: the heading branch is missing, a heading is handled as content
HeadingStepAsContent(st, lb) == ContentStep(st, lb)

\* mutant: a heading does not release the lock
HeadingStepKeepsLock(st, lb) ==
    LET f == flush(st)
    IN  [f EXCEPT !.current_meta.headings = Append(@, lb.text)]

\* mutant: a heading replaces the headings collected so far
HeadingStepLastOnly(st, lb) ==
    LET f == flush(st)
    IN  [f EXCEPT !.current_activity = NoActivity,
                  !.current_meta.headings = <<lb.text>>]

\* "if lb.cue_pattern == CP_HEADING" branch of the loop
HeadingStep(st, lb) ==
    LET f == flush(st)
    IN  [f EXCEPT !.current_activity = NoActivity,
                  !.current_meta.headings = Append(@, lb.text)]

\* "if skip_meta_blocks and lb.cue_pattern == CP_META: continue"
IsSkipped(lb, skip) == skip /\ lb.cue_pattern = CP_META

\* mutant: META blocks are dropped whatever skip_meta_blocks is
ProcessBlockIgnoresFlag(st, lb, skip) ==
    IF lb.cue_pattern = CP_META THEN st
    ELSE IF lb.cue_pattern = CP_HEADING THEN HeadingStep(st, lb)
    ELSE ContentStep(st, lb)

\* mutant: a skipped META block seals the open accumulator
ProcessBlockMetaFlushes(st, lb, skip) ==
    IF IsSkipped(lb, skip) THEN flush(st)
    ELSE IF lb.cue_pattern = CP_HEADING THEN HeadingStep(st, lb)
    ELSE ContentStep(st, lb)

\* one iteration of "for lb in labeled"
ProcessBlock(st, lb, skip) ==
    IF IsSkipped(lb, skip) THEN st
    ELSE IF lb.cue_pattern = CP_HEADING THEN HeadingStep(st, lb)
    ELSE ContentStep(st, lb)

RECURSIVE LoopFrom(_, _, _, _)
LoopFrom(st, labeled_, k, skip) ==
    IF k > Len(labeled_) THEN st
    ELSE LoopFrom(ProcessBlock(st, labeled_[k], skip), labeled_, k + 1, skip)

\* build_chunks as a function of its arguments
build_chunks(labeled_, skip) == flush(LoopFrom(InitialState, labeled_, 1, skip)).chunks

(***************************************************************************)
(* The pipeline of main.py as a state machine: the extracted blocks are    *)
(* labeled, then build_chunks consumes the labeled blocks one iteration    *)
(* at a time and flushes once more after the loop.                         *)
(***************************************************************************)
VARIABLES
    blocks,              \* the Block list handed to label_blocks
    skip_meta_blocks,    \* the argument of build_chunks
    labeled,             \* label_blocks(blocks)
    pc,                  \* "label", "loop" or "done"
    idx,                 \* how many labeled blocks the loop has consumed
    chunks,
    current_activity,
    current_texts,
    current_ids,
    current_cues,
    current_cats,
    current_meta,
    last_effective,
    last_text_in_chunk,
    chunk_counter

local_vars == <<chunks, current_activity, current_texts, current_ids, current_cues,
                current_cats, current_meta, last_effective, last_text_in_chunk,
                chunk_counter>>

vars == <<blocks, skip_meta_blocks, labeled, pc, idx, chunks, current_activity,
          current_texts, current_ids, current_cues, current_cats, current_meta,
          last_effective, last_text_in_chunk, chunk_counter>>

Documents == UNION {[1..n -> Pool] : n \in 0..MaxBlocks}

State ==
    [chunks |-> chunks,
     current_activity |-> current_activity,
     current_texts |-> current_texts,
     current_ids |-> current_ids,
     current_cues |-> current_cues,
     current_cats |-> current_cats,
     current_meta |-> current_meta,
     last_effective |-> last_effective,
     last_text_in_chunk |-> last_text_in_chunk,
     chunk_counter |-> chunk_counter]

SetState(st) ==
    /\ chunks' = st.chunks
    /\ current_activity' = st.current_activity
    /\ current_texts' = st.current_texts
    /\ current_ids' = st.current_ids
    /\ current_cues' = st.current_cues
    /\ current_cats' = st.current_cats
    /\ current_meta' = st.current_meta
    /\ last_effective' = st.last_effective
    /\ last_text_in_chunk' = st.last_text_in_chunk
    /\ chunk_counter' = st.chunk_counter

Init ==
    /\ \E doc \in Documents :
          blocks = [k \in 1..Len(doc) |-> extract_block(k, doc[k].text, doc[k].meta)]
    /\ skip_meta_blocks \in BOOLEAN
    /\ labeled = <<>>
    /\ pc = "label"
    /\ idx = 0
    /\ chunks = InitialState.chunks
    /\ current_activity = InitialState.current_activity
    /\ current_texts = InitialState.current_texts
    /\ current_ids = InitialState.current_ids
    /\ current_cues = InitialState.current_cues
    /\ current_cats = InitialState.current_cats
    /\ current_meta = InitialState.current_meta
    /\ last_effective = InitialState.last_effective
    /\ last_text_in_chunk = InitialState.last_text_in_chunk
    /\ chunk_counter = InitialState.chunk_counter

\* labeled_blocks = label_blocks(blocks)
LabelBlocks ==
    /\ pc = "label"
    /\ labeled' = label_blocks(blocks)
    /\ pc' = "loop"
    /\ UNCHANGED <<blocks, skip_meta_blocks, idx, local_vars>>

\* the block the next iteration of the loop takes
HasNext == pc = "loop" /\ idx < Len(labeled)
NextBlock == labeled[idx + 1]

\* an iteration that skips a META block
SkipMeta ==
    /\ HasNext
    /\ IsSkipped(NextBlock, skip_meta_blocks)
    /\ SetState(ProcessBlock(State, NextBlock, skip_meta_blocks))
    /\ idx' = idx + 1
    /\ UNCHANGED <<blocks, skip_meta_blocks, labeled, pc>>

\* an iteration on a heading block
Heading ==
    /\ HasNext
    /\ ~IsSkipped(NextBlock, skip_meta_blocks)
    /\ NextBlock.cue_pattern = CP_HEADING
    /\ SetState(ProcessBlock(State, NextBlock, skip_meta_blocks))
    /\ idx' = idx + 1
    /\ UNCHANGED <<blocks, skip_meta_blocks, labeled, pc>>

\* an iteration on a content block
Content ==
    /\ HasNext
    /\ ~IsSkipped(NextBlock, skip_meta_blocks)
    /\ NextBlock.cue_pattern # CP_HEADING
    /\ SetState(ProcessBlock(State, NextBlock, skip_meta_blocks))
    /\ idx' = idx + 1
    /\ UNCHANGED <<blocks, skip_meta_blocks, labeled, pc>>

\* mutant: the flush after the loop is missing
FinishNoFlush ==
    /\ pc = "loop"
    /\ idx = Len(labeled)
    /\ pc' = "done"
    /\ UNCHANGED <<blocks, skip_meta_blocks, labeled, idx, local_vars>>

\* the flush() after the loop and the return
Finish ==
    /\ pc = "loop"
    /\ idx = Len(labeled)
    /\ SetState(flush(State))
    /\ pc' = "done"
    /\ UNCHANGED <<blocks, skip_meta_blocks, labeled, idx>>

Next == LabelBlocks \/ SkipMeta \/ Heading \/ Content \/ Finish

Spec == Init /\ [][Next]_vars

(***************************************************************************)
(* The same pipeline on the five lines of scenario A, alone or with one    *)
(* more line of Pool put anywhere between them.                            *)
(***************************************************************************)
ScenarioA ==
    <<"Bab 1 Cahaya",
      "Cahaya adalah gelombang  elektromagnetik.",
      "Amati cahaya di sekitarmu.",
      "1. Siapkan senter",
      "dan catat hasilnya.">>

PoolEntry(t) == CHOOSE e \in Pool : e.text = t

ScenarioDoc == [k \in 1..Len(ScenarioA) |-> PoolEntry(ScenarioA[k])]

InsertAt(seq, p, e) == SubSeq(seq, 1, p) \o <<e>> \o SubSeq(seq, p + 1, Len(seq))

ScenarioDocuments ==
    {ScenarioDoc} \cup {InsertAt(ScenarioDoc, p, e) : p \in 0..Len(ScenarioDoc), e \in Pool}

InitScenario ==
    /\ \E doc \in ScenarioDocuments :
          blocks = [k \in 1..Len(doc) |-> extract_block(k, doc[k].text, doc[k].meta)]
    /\ skip_meta_blocks \in BOOLEAN
    /\ labeled = <<>>
    /\ pc = "label"
    /\ idx = 0
    /\ chunks = InitialState.chunks
    /\ current_activity = InitialState.current_activity
    /\ current_texts = InitialState.current_texts
    /\ current_ids = InitialState.current_ids
    /\ current_cues = InitialState.current_cues
    /\ current_cats = InitialState.current_cats
    /\ current_meta = InitialState.current_meta
    /\ last_effective = InitialState.last_effective
    /\ last_text_in_chunk = InitialState.last_text_in_chunk
    /\ chunk_counter = InitialState.chunk_counter

SpecScenario == InitScenario /\ [][Next]_vars

(***************************************************************************)
(* Vocabulary of the properties.  These definitions restate the terms of   *)
(* the specification on the variables; they do not use the operators of    *)
(* the builder.                                                            *)
(***************************************************************************)
Done == pc = "done"

Last(seq) == seq[Len(seq)]

Range(seq) == {seq[k] : k \in 1..Len(seq)}

\* a META block that the configuration drops
SkippedMetaAt(k) == skip_meta_blocks /\ labeled[k].cue_pattern = CP_META

HeadingPositions == {k \in 1..Len(labeled) : labeled[k].cue_pattern = CP_HEADING}

\* the blocks that are neither HEADING nor skipped META
ContentPositions ==
    {k \in 1..Len(labeled) : labeled[k].cue_pattern # CP_HEADING /\ ~SkippedMetaAt(k)}

\* the position in the input of the block with this id
PositionOf(id) == CHOOSE k \in 1..Len(labeled) : labeled[k].id = id

RECURSIVE ConcatIds(_)
ConcatIds(chs) == IF chs = <<>> THEN <<>> ELSE Head(chs).block_ids \o ConcatIds(Tail(chs))

RECURSIVE ConcatHeadings(_)
ConcatHeadings(chs) ==
    IF chs = <<>> THEN <<>> ELSE Head(chs).meta.headings \o ConcatHeadings(Tail(chs))

\* the texts of the heading blocks before position p that have no content
\* block between them and p, in input order
RECURSIVE HeadingTextsFrom(_, _)
HeadingTextsFrom(k, p) ==
    IF k >= p THEN <<>>
    ELSE (IF k \in HeadingPositions THEN <<labeled[k].text>> ELSE <<>>)
         \o HeadingTextsFrom(k + 1, p)

HeadingsBefore(p) ==
    LET Earlier == {k \in ContentPositions : k < p}
        from == IF Earlier = {} THEN 1
                ELSE 1 + CHOOSE k \in Earlier : \A j \in Earlier : j <= k
    IN  HeadingTextsFrom(from, p)

(***************************************************************************)
(* C1.  Lock stickiness: three blocks with own cues IMPERATIVE, FACT       *)
(* (whose text contains an imperative verb) and IMPERATIVE, no heading     *)
(* between them, all end with effective category INSTRUKSI in one chunk.   *)
(***************************************************************************)
LockStickinessCase ==
    /\ Len(labeled) = 3
    /\ labeled[1].cue_pattern = CP_IMPERATIVE
    /\ labeled[2].cue_pattern = CP_FACT
    /\ \E v \in IMPERATIVE_VERBS : SearchWord(lower(labeled[2].text), v)
    /\ labeled[3].cue_pattern = CP_IMPERATIVE

LockStickiness ==
    (Done /\ LockStickinessCase) =>
        /\ Len(chunks) = 1
        /\ chunks[1].block_ids = <<labeled[1].id, labeled[2].id, labeled[3].id>>
        /\ chunks[1].categories = <<"INSTRUKSI", "INSTRUKSI", "INSTRUKSI">>

(***************************************************************************)
(* C2.  Cardinality: the block_ids of the returned chunks have together as *)
(* many entries as there are input blocks that are neither HEADING nor,    *)
(* with skip_meta_blocks, META.                                            *)
(***************************************************************************)
CardinalityOfBlockIds ==
    Done => Len(ConcatIds(chunks)) = Cardinality(ContentPositions)

CardinalityWitness ==
    /\ Done
    /\ Len(chunks) >= 2
    /\ \E k \in 1..Len(labeled) : SkippedMetaAt(k)

(***************************************************************************)
(* C3.  Heading isolation: a block with cue HEADING is in no chunk's texts *)
(* or block_ids; its text is in meta.headings of exactly the chunk that    *)
(* receives the first content block after it, and of no chunk when no      *)
(* content block follows it.                                               *)
(***************************************************************************)
HeadingIsolation ==
    Done =>
        /\ \A k \in HeadingPositions : \A c \in 1..Len(chunks) :
              /\ labeled[k].id \notin Range(chunks[c].block_ids)
              /\ labeled[k].text \notin Range(chunks[c].texts)
        /\ \A c \in 1..Len(chunks) :
              chunks[c].meta.headings = HeadingsBefore(PositionOf(chunks[c].block_ids[1]))
        /\ Len(ConcatHeadings(chunks)) =
              Cardinality({k \in HeadingPositions : \E j \in ContentPositions : j > k})

HeadingIsolationWitness ==
    /\ Done
    /\ Len(labeled) >= 3
    /\ Len(labeled) \in HeadingPositions
    /\ \E k \in HeadingPositions : k + 1 \in ContentPositions
    /\ \E c \in 1..Len(chunks) : chunks[c].meta.headings # <<>>

(***************************************************************************)
(* C4.  As claimed: the text of a block whose declared block_type is       *)
(* heading never appears in any chunk's texts, whatever its cue.           *)
(***************************************************************************)
HeadingTypedNeverInTexts ==
    \A k \in 1..Len(labeled) :
        labeled[k].block_type = "heading" =>
            \A c \in 1..Len(chunks) : labeled[k].text \notin Range(chunks[c].texts)

(***************************************************************************)
(* C4, amended.  A block of block_type heading to which the classifier     *)
(* gave cue HEADING never has its text or id in a chunk's texts or         *)
(* block_ids or in the open accumulator; a heading-typed block with        *)
(* another cue that is not skipped is content: once consumed it is in the  *)
(* open accumulator or in a chunk, and in a chunk at the end.              *)
(***************************************************************************)
HeadingTypedByCue ==
    \A k \in 1..Len(labeled) :
        labeled[k].block_type = "heading" =>
            IF labeled[k].cue_pattern = CP_HEADING
            THEN /\ labeled[k].text \notin Range(current_texts)
                 /\ labeled[k].id \notin Range(current_ids)
                 /\ \A c \in 1..Len(chunks) :
                       /\ labeled[k].text \notin Range(chunks[c].texts)
                       /\ labeled[k].id \notin Range(chunks[c].block_ids)
            ELSE (k <= idx /\ ~SkippedMetaAt(k)) =>
                 /\ \/ labeled[k].id \in Range(current_ids)
                    \/ \E c \in 1..Len(chunks) :
                          \E n \in 1..Len(chunks[c].block_ids) :
                             /\ chunks[c].block_ids[n] = labeled[k].id
                             /\ chunks[c].texts[n] = labeled[k].text
                 /\ Done => labeled[k].id \in Range(ConcatIds(chunks))

HeadingTypedWitness ==
    /\ Done
    /\ \E k \in HeadingPositions : labeled[k].block_type = "heading"
    /\ \E k \in 1..Len(labeled) :
          /\ labeled[k].block_type = "heading"
          /\ labeled[k].cue_pattern = CP_GLOSSARY
          /\ \E c \in 1..Len(chunks) : labeled[k].text \in Range(chunks[c].texts)

(***************************************************************************)
(* C5.  Meta skipping is a no-op: with skip_meta_blocks, the iteration on  *)
(* a META block changes none of the variables of the builder; the result   *)
(* is that of the input with its META blocks removed, and no META block    *)
(* is in a chunk's texts, block_ids or meta.headings.                      *)
(***************************************************************************)
WithoutMeta(seq) == SelectSeq(seq, LAMBDA lb : lb.cue_pattern # CP_META)

MetaSkipIsNoOp ==
    /\ [][(HasNext /\ skip_meta_blocks /\ NextBlock.cue_pattern = CP_META)
            => UNCHANGED local_vars]_vars
    /\ [](Done /\ skip_meta_blocks =>
            /\ chunks = build_chunks(WithoutMeta(labeled), TRUE)
            /\ \A k \in 1..Len(labeled) : labeled[k].cue_pattern = CP_META =>
                  \A c \in 1..Len(chunks) :
                     /\ labeled[k].id \notin Range(chunks[c].block_ids)
                     /\ labeled[k].text \notin Range(chunks[c].texts)
                     /\ labeled[k].text \notin Range(chunks[c].meta.headings))

MetaSkipWitness ==
    /\ Done
    /\ skip_meta_blocks
    /\ Len(labeled) = 3
    /\ labeled[2].cue_pattern = CP_META
    /\ labeled[1].category = "INSTRUKSI"
    /\ labeled[3].category = "INSTRUKSI"
    /\ Len(chunks) = 1

(***************************************************************************)
(* C6.  Chunk ids are sequential: the i-th chunk has chunk_id "CH" and i   *)
(* on four digits; the counter is always one more than the number of       *)
(* chunks and advances, by one, only when a non-empty accumulator is       *)
(* sealed.                                                                 *)
(***************************************************************************)
FourDigits(n) ==
    IF n < 10 THEN "000" \o ToString(n)
    ELSE IF n < 100 THEN "00" \o ToString(n)
    ELSE IF n < 1000 THEN "0" \o ToString(n)
    ELSE ToString(n)

ChunkIdsSequential ==
    /\ [](/\ \A n \in 1..Len(chunks) : chunks[n].chunk_id = "CH" \o FourDigits(n)
          /\ chunk_counter = Len(chunks) + 1)
    /\ [][chunk_counter' # chunk_counter =>
            /\ current_texts # <<>>
            /\ chunk_counter' = chunk_counter + 1
            /\ Len(chunks') = Len(chunks) + 1
            /\ Last(chunks').texts = current_texts]_vars

ChunkIdsWitness ==
    /\ Done
    /\ Len(chunks) >= 3
    /\ chunks[3].chunk_id = "CH0003"

(***************************************************************************)
(* C7.  In every emitted chunk and in the open accumulator, texts,         *)
(* block_ids, cue_patterns and categories have the same length, and no     *)
(* emitted chunk is empty.                                                 *)
(***************************************************************************)
ParallelLengths ==
    /\ Len(current_ids) = Len(current_texts)
    /\ Len(current_cues) = Len(current_texts)
    /\ Len(current_cats) = Len(current_texts)
    /\ \A c \in 1..Len(chunks) :
          /\ Len(chunks[c].texts) >= 1
          /\ Len(chunks[c].block_ids) = Len(chunks[c].texts)
          /\ Len(chunks[c].cue_patterns) = Len(chunks[c].texts)
          /\ Len(chunks[c].categories) = Len(chunks[c].texts)

ParallelLengthsWitness ==
    /\ pc = "loop"
    /\ Len(current_texts) >= 1
    /\ \E c \in 1..Len(chunks) : Len(chunks[c].texts) >= 2

(***************************************************************************)
(* C8.  Sealed chunks are never reopened: a step leaves the chunks already *)
(* in the output as they are and appends at most one; at the end every     *)
(* content block is in exactly one chunk, at exactly one place.            *)
(***************************************************************************)
SealedNeverReopened ==
    /\ [][/\ Len(chunks') \in {Len(chunks), Len(chunks) + 1}
          /\ SubSeq(chunks', 1, Len(chunks)) = chunks]_vars
    /\ [](Done => \A k \in ContentPositions :
            Cardinality({n \in 1..Len(ConcatIds(chunks)) :
                            ConcatIds(chunks)[n] = labeled[k].id}) = 1)

SealedWitness ==
    /\ pc = "loop"
    /\ Len(chunks) >= 1
    /\ Len(current_texts) >= 2

(***************************************************************************)
(* C9.  Glossary: the iteration on a block with cue GLOSSARY (category     *)
(* KONSEP) leaves the activity lock NONE whatever it was, and seals the    *)
(* open accumulator only if it is non-empty and the category of the        *)
(* previous effective block differs from the effective category of the     *)
(* block.                                                                  *)
(***************************************************************************)
GlossaryStep ==
    [][(HasNext /\ ~SkippedMetaAt(idx + 1) /\ NextBlock.cue_pattern = CP_GLOSSARY) =>
         /\ NextBlock.category = "KONSEP"
         /\ current_activity' = NoActivity
         /\ Last(current_ids') = NextBlock.id
         /\ Len(chunks') > Len(chunks) =>
               /\ current_texts # <<>>
               /\ last_effective # None
               /\ last_effective.category # Last(current_cats')]_vars

GlossaryWitness ==
    /\ idx >= 2
    /\ pc = "loop"
    /\ labeled[idx].cue_pattern = CP_GLOSSARY
    /\ labeled[idx - 1].cue_pattern = CP_IMPERATIVE
    /\ current_ids = <<labeled[idx].id>>
    /\ Len(chunks) >= 1
    /\ Last(chunks).block_ids = <<labeled[idx - 1].id>>
    /\ current_activity = NoActivity

(***************************************************************************)
(* C10.  End of stream: when build_chunks returns, the open accumulator    *)
(* has been sealed, every content block is in the output, the last of      *)
(* them in the last chunk, and an input without content blocks gives no    *)
(* chunk.                                                                  *)
(***************************************************************************)
EndOfStream ==
    Done =>
        /\ current_texts = <<>>
        /\ \A k \in ContentPositions : \E c \in 1..Len(chunks) :
              labeled[k].id \in Range(chunks[c].block_ids)
        /\ ContentPositions # {} =>
              /\ chunks # <<>>
              /\ \E k \in ContentPositions :
                    /\ \A j \in ContentPositions : j <= k
                    /\ Last(Last(chunks).block_ids) = labeled[k].id
        /\ ContentPositions = {} => chunks = <<>>

EndOfStreamWitness ==
    /\ Done
    /\ Len(chunks) >= 2
    /\ Len(labeled) \in ContentPositions
    /\ Last(Last(chunks).block_ids) = labeled[Len(labeled)].id

(***************************************************************************)
(* C11.  Scenario A: a HEADING block, a DEFINITION block ending in ".", an *)
(* IMPERATIVE block ending in ".", an IMPERATIVE numbered step without     *)
(* terminal punctuation and a FACT block starting with "dan" give exactly  *)
(* two chunks: CH0001 with the heading in meta.headings and the one        *)
(* definition block, of category KONSEP, and CH0002 with the sentence, the *)
(* step and the continuation, all of category INSTRUKSI.                   *)
(***************************************************************************)
ScenarioACase ==
    /\ Len(labeled) = 5
    /\ [k \in 1..5 |-> labeled[k].cue_pattern] =
          <<CP_HEADING, CP_DEFINITION, CP_IMPERATIVE, CP_IMPERATIVE, CP_FACT>>
    /\ EndsWith(labeled[2].text, ".")
    /\ EndsWith(labeled[3].text, ".")
    /\ is_numbered_line(labeled[4].text)
    /\ \A p \in {".", "!", "?", ELLIPSIS, ":"} : ~EndsWith(labeled[4].text, p)
    /\ StartsWith(labeled[5].text, "dan ")

EndToEndA ==
    (Done /\ ScenarioACase) =>
        /\ Len(chunks) = 2
        /\ chunks[1].chunk_id = "CH0001"
        /\ chunks[1].meta.headings = <<labeled[1].text>>
        /\ chunks[1].block_ids = <<labeled[2].id>>
        /\ chunks[1].texts = <<labeled[2].text>>
        /\ chunks[1].categories = <<"KONSEP">>
        /\ chunks[2].chunk_id = "CH0002"
        /\ chunks[2].block_ids = <<labeled[3].id, labeled[4].id, labeled[5].id>>
        /\ chunks[2].texts = <<labeled[3].text, labeled[4].text, labeled[5].text>>
        /\ chunks[2].categories = <<"INSTRUKSI", "INSTRUKSI", "INSTRUKSI">>

EndToEndAWitness ==
    /\ Done
    /\ ScenarioACase
    /\ Len(chunks) = 2
    /\ Len(chunks[2].texts) = 3

(***************************************************************************)
(* C12.  Order sensitivity: for three blocks INSTRUKSI, KONSEP, INSTRUKSI  *)
(* (the KONSEP block being content and no continuation of the first) the   *)
(* builder returns three chunks, and for the same blocks with the KONSEP   *)
(* block and the last INSTRUKSI block swapped it returns fewer: the number *)
(* of chunks is not invariant under reordering of the input.               *)
(***************************************************************************)
SwapAt(seq, i, j) ==
    [k \in 1..Len(seq) |-> IF k = i THEN seq[j] ELSE IF k = j THEN seq[i] ELSE seq[k]]

OrderCase ==
    /\ Len(labeled) = 3
    /\ labeled[1].category = "INSTRUKSI"
    /\ labeled[2].category = "KONSEP"
    /\ labeled[2].cue_pattern # CP_HEADING
    /\ labeled[3].category = "INSTRUKSI"
    /\ ~looks_like_continuation(labeled[1].text, labeled[2].text)

OrderSensitivity ==
    (Done /\ OrderCase) =>
        /\ Len(chunks) = 3
        /\ Len(build_chunks(SwapAt(labeled, 2, 3), skip_meta_blocks)) < 3

OrderSensitivityWitness ==
    /\ Done
    /\ OrderCase
    /\ Len(chunks) = 3
    /\ Len(build_chunks(SwapAt(labeled, 2, 3), skip_meta_blocks)) = 2

(***************************************************************************)
(* C13.  Continuation repair merges: in an iteration on a content block,   *)
(* when the accumulator is non-empty, looks_like_continuation holds for    *)
(* the last text of the chunk and the text of the block, and the category  *)
(* of the previous effective block is INSTRUKSI or EVALUASI, the block is  *)
(* appended to the open accumulator with that category and no chunk is     *)
(* sealed, whatever the cue of the block.                                  *)
(***************************************************************************)
ContinuationCase ==
    /\ HasNext
    /\ ~IsSkipped(NextBlock, skip_meta_blocks)
    /\ NextBlock.cue_pattern # CP_HEADING
    /\ current_texts # <<>>
    /\ last_effective # None
    /\ last_effective.category \in {"INSTRUKSI", "EVALUASI"}
    /\ looks_like_continuation(last_text_in_chunk, NextBlock.text)

ContinuationMerges ==
    [][ContinuationCase =>
          /\ chunks' = chunks
          /\ current_ids' = Append(current_ids, NextBlock.id)
          /\ current_texts' = Append(current_texts, NextBlock.text)
          /\ current_cats' = Append(current_cats, last_effective.category)]_vars

(***************************************************************************)
(* C14.  Lock-matched category: no entry of a chunk or of the open         *)
(* accumulator pairs cue EVALUATIVE with category INSTRUKSI or cue         *)
(* IMPERATIVE with category EVALUASI.                                      *)
(***************************************************************************)
MismatchedPair(cue, cat) ==
    \/ cue = CP_EVALUATIVE /\ cat = "INSTRUKSI"
    \/ cue = CP_IMPERATIVE /\ cat = "EVALUASI"

NoMismatchedPair ==
    /\ \A n \in 1..Len(current_cues) : ~MismatchedPair(current_cues[n], current_cats[n])
    /\ \A c \in 1..Len(chunks) : \A n \in 1..Len(chunks[c].cue_patterns) :
          ~MismatchedPair(chunks[c].cue_patterns[n], chunks[c].categories[n])

(***************************************************************************)
(* C15.  Boundary decision: two content blocks that are adjacent in the    *)
(* stream once the skipped META blocks are removed, with no HEADING block  *)
(* between them, are in the same chunk exactly when their effective        *)
(* categories, as recorded in the chunks, are equal; a different cue with  *)
(* the same category does not separate them.                               *)
(***************************************************************************)
ChunkOf(k) == CHOOSE c \in 1..Len(chunks) : labeled[k].id \in Range(chunks[c].block_ids)

EntryOf(k) ==
    CHOOSE n \in 1..Len(chunks[ChunkOf(k)].block_ids) :
        chunks[ChunkOf(k)].block_ids[n] = labeled[k].id

EffectiveCategoryOf(k) == chunks[ChunkOf(k)].categories[EntryOf(k)]

EffectiveCueOf(k) == chunks[ChunkOf(k)].cue_patterns[EntryOf(k)]

AdjacentContent(k, j) ==
    /\ k \in ContentPositions
    /\ j \in ContentPositions
    /\ k < j
    /\ \A m \in (k + 1)..(j - 1) : SkippedMetaAt(m)

BoundaryDecision ==
    Done =>
        \A k, j \in 1..Len(labeled) :
            AdjacentContent(k, j) =>
                ((ChunkOf(k) = ChunkOf(j)) <=> (EffectiveCategoryOf(k) = EffectiveCategoryOf(j)))

BoundaryDecisionWitness ==
    /\ Done
    /\ \E k, j \in 1..Len(labeled) :
          /\ AdjacentContent(k, j)
          /\ ChunkOf(k) = ChunkOf(j)
          /\ EffectiveCategoryOf(k) = "KONSEP"
          /\ EffectiveCueOf(k) # EffectiveCueOf(j)
    /\ \E k, j \in 1..Len(labeled) :
          /\ AdjacentContent(k, j)
          /\ ChunkOf(k) # ChunkOf(j)
          /\ EffectiveCategoryOf(k) # EffectiveCategoryOf(j)

(***************************************************************************)
(* C16.  Evaluation-run inheritance: a block whose own cue is FACT or      *)
(* INTRO and whose text contains "?" or reads as evaluative, consumed      *)
(* right after a block of cue EVALUATIVE, is appended to the open          *)
(* accumulator with cue EVALUATIVE and category EVALUASI and no chunk is   *)
(* sealed.                                                                 *)
(***************************************************************************)
EvaluationInheritanceCase ==
    /\ HasNext
    /\ idx >= 1
    /\ labeled[idx].cue_pattern = CP_EVALUATIVE
    /\ NextBlock.cue_pattern \in {CP_FACT, CP_INTRO}
    /\ (Contains(NextBlock.text, "?") \/ looks_like_evaluative(NextBlock.text))

EvaluationInheritance ==
    [][EvaluationInheritanceCase =>
          /\ chunks' = chunks
          /\ current_ids' = Append(current_ids, NextBlock.id)
          /\ current_cues' = Append(current_cues, CP_EVALUATIVE)
          /\ current_cats' = Append(current_cats, "EVALUASI")]_vars

(***************************************************************************)
(* C17.  Lock update table.  LockOf is the table of the claim; a document  *)
(* that starts with a META block shows that the only lock a META block     *)
(* could give independently of the previous lock is NONE.                  *)
(***************************************************************************)
LockOf(cue) ==
    IF cue = CP_IMPERATIVE THEN "INSTRUKSI"
    ELSE IF cue = CP_EVALUATIVE THEN "EVALUASI"
    ELSE "NONE"

\* C17 as claimed: after an iteration on any block that is not a skipped
\* META block, the lock is a function of the own cue of that block alone.
LockDependsOnCueOnly ==
    [][(HasNext /\ ~IsSkipped(NextBlock, skip_meta_blocks))
          => current_activity' = LockOf(NextBlock.cue_pattern)]_vars

\* C17, amended: after an iteration on a block whose cue is not META the
\* lock is the entry of the table for the own cue of the block, whatever
\* the previous lock and the outcome of continuation and coercion, also
\* for a HEADING that meets an empty accumulator; an iteration on a META
\* block that is not skipped leaves the lock as it was.
LockUpdateTable ==
    [][(HasNext /\ ~IsSkipped(NextBlock, skip_meta_blocks))
          => current_activity' = IF NextBlock.cue_pattern = CP_META
                                 THEN current_activity
                                 ELSE LockOf(NextBlock.cue_pattern)]_vars

LockUpdateWitness ==
    /\ ~skip_meta_blocks
    /\ idx = 3
    /\ labeled[1].cue_pattern = CP_HEADING
    /\ labeled[2].cue_pattern = CP_IMPERATIVE
    /\ labeled[3].cue_pattern = CP_META
    /\ current_activity = "INSTRUKSI"

(***************************************************************************)
(* C18.  Consecutive headings, the stream being the input without its      *)
(* skipped META blocks.  An iteration on a HEADING block seals one chunk   *)
(* when the accumulator is non-empty and none otherwise, so none when the  *)
(* block before it in the stream is a HEADING, and it appends its text to  *)
(* the headings of the empty accumulator.  At return the meta.headings of  *)
(* a chunk are the texts of the run of HEADING blocks that ends right      *)
(* before the first block of the chunk, in input order: the empty list     *)
(* when that block follows a content block.                                *)
(***************************************************************************)
\* the position before p in the stream, 0 when there is none
RECURSIVE StreamPredecessor(_)
StreamPredecessor(p) ==
    IF p <= 1 THEN 0
    ELSE IF SkippedMetaAt(p - 1) THEN StreamPredecessor(p - 1)
    ELSE p - 1

\* the texts of the run of HEADING blocks that ends right before p
RECURSIVE HeadingRunBefore(_)
HeadingRunBefore(p) ==
    LET q == StreamPredecessor(p)
    IN  IF q = 0 THEN <<>>
        ELSE IF labeled[q].cue_pattern = CP_HEADING
        THEN Append(HeadingRunBefore(q), labeled[q].text)
        ELSE <<>>

HeadingIteration ==
    /\ HasNext
    /\ ~IsSkipped(NextBlock, skip_meta_blocks)
    /\ NextBlock.cue_pattern = CP_HEADING

ConsecutiveHeadings ==
    /\ [][HeadingIteration =>
            /\ Len(chunks') = Len(chunks) + (IF current_texts # <<>> THEN 1 ELSE 0)
            /\ (StreamPredecessor(idx + 1) \in HeadingPositions => chunks' = chunks)
            /\ current_texts' = <<>>
            /\ current_meta'.headings = HeadingRunBefore(idx + 2)]_vars
    /\ [](Done => \A c \in 1..Len(chunks) :
            LET first == PositionOf(chunks[c].block_ids[1])
            IN  /\ chunks[c].meta.headings = HeadingRunBefore(first)
                /\ (StreamPredecessor(first) \in ContentPositions
                       => chunks[c].meta.headings = <<>>))

ConsecutiveHeadingsWitness ==
    /\ idx = 3
    /\ 1 \in ContentPositions
    /\ {2, 3} \subseteq HeadingPositions
    /\ Len(chunks) = 1
    /\ current_texts = <<>>
    /\ current_meta.headings = <<labeled[2].text, labeled[3].text>>

(***************************************************************************)
(* C19.  The lock-driven coercions are unreachable: where an iteration on  *)
(* a content block evaluates them, the lock (updated from the own cue of   *)
(* the block) is never INSTRUKSI with a forced cue in {NARRATIVE, FACT,    *)
(* INTRO} and never EVALUASI with a forced cue in {FACT, INTRO}, so they   *)
(* leave the forced cue and category as the continuation heuristic set     *)
(* them.                                                                   *)
(***************************************************************************)
\* the conditions of the two branches are false for this lock and forced cue
BranchesNotTaken(lock, forced, lb) ==
    /\ ~(lock = "INSTRUKSI" /\ forced.cue \in {CP_NARRATIVE, CP_FACT, CP_INTRO})
    /\ ~(lock = "EVALUASI" /\ forced.cue \in {CP_FACT, CP_INTRO})
    /\ LockCoercion(lock, forced, lb) = forced

CategoryHomogeneous ==
    /\ (last_effective = None) <=> (current_texts = <<>>)
    /\ current_cats # <<>> =>
          /\ last_effective # None
          /\ \A n \in 1..Len(current_cats) : current_cats[n] = last_effective.category
    /\ \A c \in 1..Len(chunks) : \A n \in 1..Len(chunks[c].categories) :
          chunks[c].categories[n] = chunks[c].categories[1]

CategoryHomogeneousWitness ==
    /\ Len(chunks) = 1
    /\ Len(chunks[1].categories) = 2
    /\ chunks[1].cue_patterns[1] # chunks[1].cue_patterns[2]
    /\ Len(current_cats) = 1
    /\ current_cats[1] # chunks[1].categories[1]

(***************************************************************************)
(* C21.  Chunking is an order-preserving partition: in every state the     *)
(* block_ids of the chunks, in chunk order, followed by those of the open  *)
(* accumulator are the ids of the consumed blocks that are neither HEADING *)
(* nor skipped META, in input order and each occurrence once, and the      *)
(* texts are the texts of those blocks unchanged; at return the            *)
(* accumulator is empty, so the chunks, none of them empty, are contiguous *)
(* runs of the content stream.                                             *)
(***************************************************************************)
RECURSIVE ConcatTexts(_)
ConcatTexts(chs) == IF chs = <<>> THEN <<>> ELSE Head(chs).texts \o ConcatTexts(Tail(chs))

\* the content blocks among the first n blocks of the input, in input order
RECURSIVE ContentStream(_)
ContentStream(n) ==
    IF n = 0 THEN <<>>
    ELSE IF n \in ContentPositions THEN Append(ContentStream(n - 1), labeled[n])
    ELSE ContentStream(n - 1)

StreamIds(n) == [k \in 1..Len(ContentStream(n)) |-> ContentStream(n)[k].id]

StreamTexts(n) == [k \in 1..Len(ContentStream(n)) |-> ContentStream(n)[k].text]

OrderPreservingPartition ==
    /\ ConcatIds(chunks) \o current_ids = StreamIds(idx)
    /\ ConcatTexts(chunks) \o current_texts = StreamTexts(idx)
    /\ \A c \in 1..Len(chunks) : chunks[c].block_ids # <<>>
    /\ Done => /\ current_ids = <<>>
               /\ ConcatIds(chunks) = StreamIds(Len(labeled))
               /\ ConcatTexts(chunks) = StreamTexts(Len(labeled))

OrderPreservingWitness ==
    /\ Done
    /\ Len(labeled) = 3
    /\ ContentPositions = {1, 2, 3}
    /\ Len(chunks) = 2
    /\ Len(chunks[1].block_ids) = 2
    /\ labeled[1].text # labeled[2].text

====
